---- MODULE Spec2Model ----
(***************************************************************************)
(* CPM scheduling engine of src/project_calculations.py                    *)
(* (class ScheduleCalculator): the engine's activity list, add_activity,   *)
(* calculate_cpm and generate_gantt_data, as a state machine; the view     *)
(* schedule_detail of src/routes.py that drives it, one calculator per     *)
(* request; and the two static methods of ProductivityCalculator.          *)
(***************************************************************************)
EXTENDS Integers, Sequences, FiniteSets, TLC

VARIABLES
    activities,     \* self.activities of the engine under study
    call,           \* the last method called on that engine
    ret,            \* what that call returned
    requests,       \* the schedule_detail requests in progress, by worker
    calculators,    \* the ScheduleCalculator each worker's request holds
    calc,           \* the last ProductivityCalculator call and its result
    table,          \* the ScheduleActivity rows of one schedule
    response,       \* the last response of new_activity
    frame,          \* the locals of a calculate_cpm call in progress
    held            \* a result of calculate_cpm that the caller has kept

vars == <<activities, call, ret, requests, calculators, calc,
          table, response, frame, held>>

\* the state of the engine under study, and the rest
engine == <<activities, call, ret>>
extra == <<table, response, frame, held>>
others == <<requests, calculators, calc, extra>>

(***************************************************************************)
(* Bounds of the model and the input sets of the callers.                  *)
(***************************************************************************)
\* longest activity list built by a caller that passes arbitrary arguments
MaxActs == 2
\* longest activity list built in dependency order
MaxOrdered == 3
\* longest linear chain
MaxChain == 3
\* calculate_cpm is not called again once a computed time exceeds this
MaxTime == 4

IdSet == {1, 2}
NameSet == {"act"}
DurSet == {0 - 1, 1, 2}
\* the last list starts with an id that no activity ever gets
PredLists == {<< >>, <<1>>, <<1, 2>>, <<9, 1>>}
\* durations passed by the caller that adds in dependency order
OrderedDurSet == {0 - 1, 0, 1, 2}
\* ids that are never given to an activity
UnknownIds == {9}
\* durations of the chain and fork-join schedules
ShapeDurSet == {0 - 1, 0, 1, 2, 3, 4, 5}
\* predecessor lists of the fork-join schedule A -> {B, C} -> D
ForkPreds == << << >>, <<1>>, <<1>>, <<2, 3>> >>
\* proleptic Gregorian ordinals of 2024-02-27 and 2024-12-30
StartDates == {738943, 739250}

(***************************************************************************)
(* Helpers on sequences and integers (Python built-ins used by the code).  *)
(***************************************************************************)
Range(s) == {s[i] : i \in 1..Len(s)}

Max2(a, b) == IF a >= b THEN a ELSE b

Abs(x) == IF x >= 0 THEN x ELSE 0 - x

\* max(...) over a non-empty set of integers
MaxOf(S) == CHOOSE x \in S : \A y \in S : y <= x

\* min(...) over a non-empty set of integers
MinOf(S) == CHOOSE x \in S : \A y \in S : x <= y

(***************************************************************************)
(* add_activity: the record appended to self.activities.                   *)
(***************************************************************************)
NewActivity(id, name, duration, predecessors) ==
    [id |-> id, name |-> name, duration |-> duration,
     predecessors |-> predecessors,
     early_start |-> 0, early_finish |-> 0,
     late_start |-> 0, late_finish |-> 0,
     slack |-> 0, is_critical |-> FALSE]

(***************************************************************************)
(* calculate_cpm, forward pass.                                            *)
(***************************************************************************)
\* a lookup that falls back to the last activity (index -1) when no id matches
FindPredOrLast(acts, pred_id) ==
    IF \E i \in 1..Len(acts) : acts[i].id = pred_id
    THEN CHOOSE i \in 1..Len(acts) :
            /\ acts[i].id = pred_id
            /\ \A j \in 1..(i - 1) : acts[j].id # pred_id
    ELSE Len(acts)

\* next((a for a in self.activities if a['id'] == pred_id), None):
\* the index of the first activity with that id, 0 for None
FindPred(acts, pred_id) ==
    IF \E i \in 1..Len(acts) : acts[i].id = pred_id
    THEN CHOOSE i \in 1..Len(acts) :
            /\ acts[i].id = pred_id
            /\ \A j \in 1..(i - 1) : acts[j].id # pred_id
    ELSE 0

\* the loop over activity['predecessors'], from position k with running
\* maximum max_finish
RECURSIVE MaxFinish(_, _, _, _)
MaxFinish(acts, preds, k, max_finish) ==
    IF k > Len(preds) THEN max_finish
    ELSE LET p == FindPred(acts, preds[k])
         IN  MaxFinish(acts, preds, k + 1,
                       IF p # 0 THEN Max2(max_finish, acts[p].early_finish)
                       ELSE max_finish)

\* early_start taken from the last predecessor found, without the max
EarlyStartLastPred(acts, i) ==
    LET known == SelectSeq(acts[i].predecessors,
                           LAMBDA p : FindPred(acts, p) # 0)
    IN  IF known = << >> THEN 0
        ELSE acts[FindPred(acts, known[Len(known)])].early_finish

\* early_start taken from the predecessors added before the activity only
EarlyStartEarlierOnly(acts, i) ==
    MaxOf({0} \cup {acts[p].early_finish : p \in
                        {FindPred(acts, acts[i].predecessors[k]) :
                            k \in 1..Len(acts[i].predecessors)}
                        \cap (1..(i - 1))})

\* the value assigned to activity['early_start']
EarlyStart(acts, i) ==
    IF acts[i].predecessors = << >> THEN 0
    ELSE MaxFinish(acts, acts[i].predecessors, 1, 0)

\* a forward step that forgets to add early_start to the duration
ForwardStepNoStart(acts, i) ==
    [acts EXCEPT ![i].early_start = EarlyStart(acts, i),
                 ![i].early_finish = acts[i].duration]

\* one iteration of the forward loop, in place
ForwardStep(acts, i) ==
    LET es == EarlyStart(acts, i)
    IN  [acts EXCEPT ![i].early_start = es,
                     ![i].early_finish = es + acts[i].duration]

\* for activity in self.activities, from index i
RECURSIVE ForwardPass(_, _)
ForwardPass(acts, i) ==
    IF i > Len(acts) THEN acts
    ELSE ForwardPass(ForwardStep(acts, i), i + 1)

\* project_duration taken as the smallest early_finish
ProjectDurationMin(acts) == MinOf({acts[i].early_finish : i \in 1..Len(acts)})

\* project_duration read from the last activity of the list
ProjectDurationLast(acts) == acts[Len(acts)].early_finish

\* max(a['early_finish'] for a in self.activities), on a non-empty list
ProjectDuration(acts) == MaxOf({acts[i].early_finish : i \in 1..Len(acts)})

(***************************************************************************)
(* calculate_cpm, backward pass.                                           *)
(***************************************************************************)
\* successors found by looking at the first predecessor of each activity only
SuccessorsByFirstPred(acts, i) ==
    {j \in 1..Len(acts) :
        /\ acts[j].predecessors # << >>
        /\ acts[j].predecessors[1] = acts[i].id}

\* [a for a in self.activities if activity['id'] in a['predecessors']]
Successors(acts, i) ==
    {j \in 1..Len(acts) : acts[i].id \in Range(acts[j].predecessors)}

\* late_finish taken as project_duration for every activity
LateFinishProjectEnd(acts, i, project_duration) == project_duration

\* late_finish of an activity without successors taken as its own
\* early_finish
LateFinishOwnFinish(acts, i, project_duration) ==
    LET successors == Successors(acts, i)
    IN  IF successors = {} THEN acts[i].early_finish
        ELSE MinOf({acts[j].late_start : j \in successors})

\* late_finish taken as the max of the successors' late_start
LateFinishMax(acts, i, project_duration) ==
    LET successors == Successors(acts, i)
    IN  IF successors = {} THEN project_duration
        ELSE MaxOf({acts[j].late_start : j \in successors})

\* the value assigned to activity['late_finish']
LateFinish(acts, i, project_duration) ==
    LET successors == Successors(acts, i)
    IN  IF successors = {} THEN project_duration
        ELSE MinOf({acts[j].late_start : j \in successors})

\* a backward step whose slack is late_finish - early_start
BackwardStepSlackFromFinish(acts, i, project_duration) ==
    LET lf == LateFinish(acts, i, project_duration)
        ls == lf - acts[i].duration
        sl == lf - acts[i].early_start
    IN  [acts EXCEPT ![i].late_finish = lf,
                     ![i].late_start = ls,
                     ![i].slack = sl,
                     ![i].is_critical = (sl = 0)]

\* a backward step whose late_start is late_finish itself
BackwardStepNoDuration(acts, i, project_duration) ==
    LET lf == LateFinish(acts, i, project_duration)
        ls == lf
        sl == ls - acts[i].early_start
    IN  [acts EXCEPT ![i].late_finish = lf,
                     ![i].late_start = ls,
                     ![i].slack = sl,
                     ![i].is_critical = (sl = 0)]

\* a backward step that marks every activity without positive slack critical
BackwardStepCriticalNoFloat(acts, i, project_duration) ==
    LET lf == LateFinish(acts, i, project_duration)
        ls == lf - acts[i].duration
        sl == ls - acts[i].early_start
    IN  [acts EXCEPT ![i].late_finish = lf,
                     ![i].late_start = ls,
                     ![i].slack = sl,
                     ![i].is_critical = (sl <= 0)]

\* one iteration of the backward loop, in place
BackwardStep(acts, i, project_duration) ==
    LET lf == LateFinish(acts, i, project_duration)
        ls == lf - acts[i].duration
        sl == ls - acts[i].early_start
    IN  [acts EXCEPT ![i].late_finish = lf,
                     ![i].late_start = ls,
                     ![i].slack = sl,
                     ![i].is_critical = (sl = 0)]

\* for activity in reversed(self.activities), from index i down to 1
RECURSIVE BackwardPass(_, _, _)
BackwardPass(acts, i, project_duration) ==
    IF i < 1 THEN acts
    ELSE BackwardPass(BackwardStep(acts, i, project_duration), i - 1,
                      project_duration)

\* the critical ids collected while the backward loop runs, latest first
CriticalPathBackward(acts) ==
    LET crit == SelectSeq(acts, LAMBDA a : a.is_critical)
    IN  [k \in 1..Len(crit) |-> crit[Len(crit) + 1 - k].id]

\* [a['id'] for a in self.activities if a['is_critical']]
CriticalPath(acts) ==
    LET crit == SelectSeq(acts, LAMBDA a : a.is_critical)
    IN  [k \in 1..Len(crit) |-> crit[k].id]

\* [a for a in self.activities if a['is_critical']]: the elements are the
\* engine's own records, represented by their positions in the list
CriticalActivities(acts) ==
    SelectSeq([k \in 1..Len(acts) |-> k], LAMBDA k : acts[k].is_critical)

\* the activity list after both passes (non-empty list)
CpmActivities(acts) ==
    LET fwd == ForwardPass(acts, 1)
    IN  BackwardPass(fwd, Len(fwd), ProjectDuration(fwd))

(***************************************************************************)
(* Return values.  'activities' of the result of calculate_cpm is the      *)
(* engine's own list, read from the variable activities, and the elements  *)
(* of 'critical_activities' are positions in that list.                    *)
(***************************************************************************)
NoCall == [op |-> "none", start_date |-> 0]

NoneValue ==
    [kind |-> "None", project_duration |-> 0, critical_path |-> << >>, critical_activities |-> << >>,
     gantt |-> << >>]

\* max() of an empty sequence
ValueError ==
    [kind |-> "ValueError", project_duration |-> 0, critical_path |-> << >>, critical_activities |-> << >>,
     gantt |-> << >>]

\* the dict returned by calculate_cpm called on the list acts (non-empty):
\* project_duration is the value computed between the two passes
CpmReturn(acts) ==
    LET fwd == ForwardPass(acts, 1)
        project_duration == ProjectDuration(fwd)
        done == BackwardPass(fwd, Len(fwd), project_duration)
    IN  [kind |-> "dict", project_duration |-> project_duration,
         critical_path |-> CriticalPath(done),
         critical_activities |-> CriticalActivities(done), gantt |-> << >>]

(***************************************************************************)
(* generate_gantt_data: dates are proleptic Gregorian ordinals, as         *)
(* datetime keeps them; strftime('%Y-%m-%d') yields <<year, month, day>>.  *)
(***************************************************************************)
\* the date formatted with day and month swapped ('%Y-%d-%m')
FormatDateDayMonth(ordinal) ==
    LET z == ordinal + 305
        era == z \div 146097
        doe == z - era * 146097
        yoe == (doe - doe \div 1460 + doe \div 36524 - doe \div 146096) \div 365
        doy == doe - (365 * yoe + yoe \div 4 - yoe \div 100)
        mp == (5 * doy + 2) \div 153
        d == doy - (153 * mp + 2) \div 5 + 1
        m == IF mp < 10 THEN mp + 3 ELSE mp - 9
        y == yoe + era * 400 + (IF m <= 2 THEN 1 ELSE 0)
    IN  <<y, d, m>>

\* (start_date + timedelta(days=n)).strftime('%Y-%m-%d')
FormatDate(ordinal) ==
    LET z == ordinal + 305
        era == z \div 146097
        doe == z - era * 146097
        yoe == (doe - doe \div 1460 + doe \div 36524 - doe \div 146096) \div 365
        doy == doe - (365 * yoe + yoe \div 4 - yoe \div 100)
        mp == (5 * doy + 2) \div 153
        d == doy - (153 * mp + 2) \div 5 + 1
        m == IF mp < 10 THEN mp + 3 ELSE mp - 9
        y == yoe + era * 400 + (IF m <= 2 THEN 1 ELSE 0)
    IN  <<y, m, d>>

\* a Gantt record whose end date is the start date plus the duration
GanttRecordEndByDuration(a, start_date) ==
    [id |-> a.id, name |-> a.name,
     start_date |-> FormatDate(start_date + a.early_start),
     end_date |-> FormatDate(start_date + a.early_start + a.duration),
     duration |-> a.duration, is_critical |-> a.is_critical,
     slack |-> a.slack, predecessors |-> a.predecessors]

\* the record appended to gantt_data for one activity
GanttRecord(a, start_date) ==
    [id |-> a.id, name |-> a.name,
     start_date |-> FormatDate(start_date + a.early_start),
     end_date |-> FormatDate(start_date + a.early_finish),
     duration |-> a.duration, is_critical |-> a.is_critical,
     slack |-> a.slack, predecessors |-> a.predecessors]

GanttData(acts, start_date) ==
    [k \in 1..Len(acts) |-> GanttRecord(acts[k], start_date)]

(***************************************************************************)
(* The engine: __init__, add_activity, calculate_cpm, generate_gantt_data. *)
(***************************************************************************)
\* requests the server handles at the same time, one per worker
MaxRequests == 2

Workers == 1..MaxRequests

\* a worker between two requests
NoRequest ==
    [pc |-> "idle", rows |-> << >>, start_date |-> 0, done |-> 0,
     cpm_data |-> NoneValue, gantt_data |-> << >>]

\* no ProductivityCalculator method has been called
NoCalc == [op |-> "none", args |-> << >>, result |-> << >>]

\* new_activity has not answered yet
NoResponse == [kind |-> "none", flash |-> "none"]

\* no calculate_cpm call is in progress
NoFrame ==
    [pc |-> "none", i |-> 0, project_duration |-> 0,
     forward |-> << >>, backward |-> << >>]

\* no table row, no response, no call in progress, no result kept
InitExtra ==
    /\ table = << >>
    /\ response = NoResponse
    /\ frame = NoFrame
    /\ held = NoneValue

Init ==
    /\ activities = << >>
    /\ call = NoCall
    /\ ret = NoneValue
    /\ requests = [w \in Workers |-> NoRequest]
    /\ calculators = [w \in Workers |-> << >>]
    /\ calc = NoCalc
    /\ InitExtra

\* an add_activity that overwrites the record already holding the id
AddActivityReplacing(id, name, duration, predecessors) ==
    /\ activities' =
          IF \E k \in 1..Len(activities) : activities[k].id = id
          THEN [k \in 1..Len(activities) |->
                   IF activities[k].id = id
                   THEN NewActivity(id, name, duration, predecessors)
                   ELSE activities[k]]
          ELSE Append(activities,
                      NewActivity(id, name, duration, predecessors))
    /\ call' = [op |-> "add_activity", start_date |-> 0]
    /\ ret' = NoneValue
    /\ UNCHANGED others

AddActivity(id, name, duration, predecessors) ==
    /\ activities' = Append(activities,
                            NewActivity(id, name, duration, predecessors))
    /\ call' = [op |-> "add_activity", start_date |-> 0]
    /\ ret' = NoneValue
    /\ UNCHANGED others

\* no computed time has left the window the model explores
InWindow(acts) ==
    \A i \in 1..Len(acts) :
        /\ Abs(acts[i].early_finish) <= MaxTime
        /\ Abs(acts[i].late_start) <= MaxTime

CalculateCpm ==
    /\ InWindow(activities)
    /\ call' = [op |-> "calculate_cpm", start_date |-> 0]
    /\ IF activities = << >>
       THEN /\ activities' = activities
            /\ ret' = ValueError
       ELSE /\ activities' = CpmActivities(activities)
            /\ ret' = CpmReturn(activities)
    /\ UNCHANGED others

\* a Gantt loop that consumes the list with self.activities.pop(0)
GenerateGanttDraining(start_date) ==
    /\ call' = [op |-> "generate_gantt_data", start_date |-> start_date]
    /\ ret' = [kind |-> "list", project_duration |-> 0,
               critical_path |-> << >>, critical_activities |-> << >>,
               gantt |-> GanttData(activities, start_date)]
    /\ activities' = << >>
    /\ UNCHANGED others

GenerateGantt(start_date) ==
    /\ call' = [op |-> "generate_gantt_data", start_date |-> start_date]
    /\ ret' = [kind |-> "list", project_duration |-> 0,
               critical_path |-> << >>, critical_activities |-> << >>,
               gantt |-> GanttData(activities, start_date)]
    /\ activities' = activities
    /\ UNCHANGED others

\* a caller that passes any id, duration and predecessor list
AddAny ==
    /\ Len(activities) < MaxActs
    /\ \E id \in IdSet, name \in NameSet, duration \in DurSet,
       predecessors \in PredLists :
        AddActivity(id, name, duration, predecessors)

Gantt == \E start_date \in StartDates : GenerateGantt(start_date)

Next == AddAny \/ CalculateCpm \/ Gantt

Spec == Init /\ [][Next]_vars

(***************************************************************************)
(* A caller like schedule_detail over rows stored in dependency order:     *)
(* ids are the rows' primary keys (distinct, here 1, 2, ...), and every    *)
(* predecessor id is an earlier row's id or matches no row at all.         *)
(***************************************************************************)
\* strictly increasing lists of at most two ids out of S
SortedLists(S) ==
    {<< >>} \cup {<<x>> : x \in S}
            \cup {p \in S \X S : p[1] < p[2]}

AddOrdered ==
    /\ Len(activities) < MaxOrdered
    /\ \E name \in NameSet, duration \in OrderedDurSet,
          predecessors \in SortedLists((1..Len(activities)) \cup UnknownIds) :
           AddActivity(Len(activities) + 1, name, duration, predecessors)

NextOrdered == AddOrdered \/ CalculateCpm

SpecOrdered == Init /\ [][NextOrdered]_vars

\* a caller that builds a linear chain 1 <- 2 <- 3 ...
AddChain ==
    /\ Len(activities) < MaxChain
    /\ \E name \in NameSet, duration \in ShapeDurSet :
           AddActivity(Len(activities) + 1, name, duration,
                       IF activities = << >> THEN << >>
                       ELSE <<Len(activities)>>)

NextChain == AddChain \/ CalculateCpm

SpecChain == Init /\ [][NextChain]_vars

\* a caller that builds the fork-join schedule A, B, C, D
AddFork ==
    /\ Len(activities) < Len(ForkPreds)
    /\ \E name \in NameSet, duration \in ShapeDurSet :
           AddActivity(Len(activities) + 1, name, duration,
                       ForkPreds[Len(activities) + 1])

NextFork == AddFork \/ CalculateCpm

SpecFork == Init /\ [][NextFork]_vars

\* the argument predecessors=None of add_activity: << >> when the caller
\* omits it, <<l>> when the caller passes the list l
OptPredLists == {<< >>, << << >> >>, << <<2, 1>> >>}

AddDurSet == {0 - 1, 0, 1}

\* predecessors if predecessors is not None else []
PredecessorsOrEmpty(opt) == IF opt = << >> THEN << >> ELSE opt[1]

\* a caller that adds any duration and any id, with or without predecessors
AddOptional ==
    /\ Len(activities) < MaxActs
    /\ \E id \in IdSet, name \in NameSet, duration \in AddDurSet,
          opt \in OptPredLists :
           AddActivity(id, name, duration, PredecessorsOrEmpty(opt))

NextAdd == AddOptional \/ CalculateCpm

SpecAdd == Init /\ [][NextAdd]_vars

(***************************************************************************)
(* Text.  A Python str is the sequence of its characters, so '1, 2' is     *)
(* <<"1", ",", " ", "2">> and the empty string (or NULL) is << >>.          *)
(***************************************************************************)
Digits == <<"0", "1", "2", "3", "4", "5", "6", "7", "8", "9">>

\* x.strip(), for the blank as the only whitespace
RECURSIVE Strip(_)
Strip(x) ==
    IF x = << >> THEN x
    ELSE IF Head(x) = " " THEN Strip(Tail(x))
    ELSE IF x[Len(x)] = " " THEN Strip(SubSeq(x, 1, Len(x) - 1))
    ELSE x

\* a split that leaves out the empty tokens
RECURSIVE SplitNonEmpty(_, _)
SplitNonEmpty(x, sep) ==
    IF \A k \in 1..Len(x) : x[k] # sep
    THEN IF x = << >> THEN << >> ELSE <<x>>
    ELSE LET k == CHOOSE i \in 1..Len(x) :
                    x[i] = sep /\ \A j \in 1..(i - 1) : x[j] # sep
         IN  (IF k = 1 THEN << >> ELSE <<SubSeq(x, 1, k - 1)>>)
                \o SplitNonEmpty(SubSeq(x, k + 1, Len(x)), sep)

\* x.split(sep): one token more than there are separators
RECURSIVE Split(_, _)
Split(x, sep) ==
    IF \A k \in 1..Len(x) : x[k] # sep THEN <<x>>
    ELSE LET k == CHOOSE i \in 1..Len(x) :
                    x[i] = sep /\ \A j \in 1..(i - 1) : x[j] # sep
         IN  <<SubSeq(x, 1, k - 1)>> \o Split(SubSeq(x, k + 1, Len(x)), sep)

\* the text without its sign
Unsigned(x) == IF x # << >> /\ Head(x) \in {"+", "-"} THEN Tail(x) ELSE x

\* int(x) does not raise ValueError: an optional sign and at least one digit
\* (the texts of the model hold no '_' and no blank inside a token)
IsIntText(x) ==
    /\ Unsigned(x) # << >>
    /\ \A k \in 1..Len(Unsigned(x)) : Unsigned(x)[k] \in Range(Digits)

\* the value of a sequence of digits
RECURSIVE NatOf(_)
NatOf(x) ==
    IF x = << >> THEN 0
    ELSE 10 * NatOf(SubSeq(x, 1, Len(x) - 1))
           + (CHOOSE d \in 0..9 : Digits[d + 1] = x[Len(x)])

\* int(x), for a text that int accepts
IntOf(x) ==
    IF Head(x) = "-" THEN 0 - NatOf(Unsigned(x)) ELSE NatOf(Unsigned(x))

\* str(n) for n >= 0
RECURSIVE StrNat(_)
StrNat(n) ==
    IF n < 10 THEN <<Digits[n + 1]>>
    ELSE StrNat(n \div 10) \o <<Digits[(n % 10) + 1]>>

\* str(n)
Str(n) == IF n < 0 THEN <<"-">> \o StrNat(0 - n) ELSE StrNat(n)

\* ', '.join(str(n) for n in list)
RECURSIVE JoinInts(_)
JoinInts(list) ==
    IF list = << >> THEN << >>
    ELSE IF Len(list) = 1 THEN Str(list[1])
    ELSE Str(list[1]) \o <<",", " ">> \o JoinInts(Tail(list))

\* json.dumps(list) for a list of ints: '[1, 2]'
JsonDumps(list) == <<"[">> \o JoinInts(list) \o <<"]">>

\* json.loads(text) for the text of a JSON array of ints
JsonArray(text) ==
    LET inner == Strip(SubSeq(Strip(text), 2, Len(Strip(text)) - 1))
        items == Split(inner, ",")
    IN  IF inner = << >> THEN << >>
        ELSE [k \in 1..Len(items) |-> IntOf(Strip(items[k]))]

(***************************************************************************)
(* schedule_detail of src/routes.py: each request reads the rows of one    *)
(* schedule, fills a ScheduleCalculator, calls calculate_cpm and           *)
(* generate_gantt_data and renders.  The workers interleave between the    *)
(* calls.                                                                  *)
(***************************************************************************)
\* a ScheduleActivity row; the column predecessors holds a text, << >> for
\* NULL
Row(id, duration, predecessors) ==
    [id |-> id, name |-> "act", duration |-> duration,
     predecessors |-> predecessors]

\* what ScheduleActivity.query.filter_by(schedule_id=...).all() can return
RowLists ==
    {<< >>,
     <<Row(1, 2, << >>)>>,
     <<Row(1, 2, << >>), Row(2, 1, JsonDumps(<<1>>))>>,
     <<Row(3, 1, JsonDumps(<<4>>)), Row(4, 3, JsonDumps(<< >>))>>}

\* json.loads(activity.predecessors) if activity.predecessors else []
JsonLoads(column) == IF column = << >> THEN << >> ELSE JsonArray(column)

\* a calculator held by every request: one module-level ScheduleCalculator
CalculatorShared(w) == CHOOSE v \in Workers : \A u \in Workers : v <= u

\* calculator = ScheduleCalculator() is a local of the request
CalculatorOf(w) == w

\* the three queries at the top of the view
LoadRows(w) ==
    /\ requests[w].pc = "idle"
    /\ \E rows \in RowLists, start_date \in StartDates :
           requests' = [requests EXCEPT ![w] =
               [NoRequest EXCEPT !.pc = IF rows = << >> THEN "render"
                                                        ELSE "construct",
                                 !.rows = rows,
                                 !.start_date = start_date]]
    /\ UNCHANGED <<calculators, calc, engine, extra>>

\* calculator = ScheduleCalculator()
Construct(w) ==
    /\ requests[w].pc = "construct"
    /\ calculators' = [calculators EXCEPT ![CalculatorOf(w)] = << >>]
    /\ requests' = [requests EXCEPT ![w].pc = "add"]
    /\ UNCHANGED <<calc, engine, extra>>

\* one iteration of the loop over the rows
AddRow(w) ==
    /\ requests[w].pc = "add"
    /\ requests[w].done < Len(requests[w].rows)
    /\ LET row == requests[w].rows[requests[w].done + 1]
       IN  calculators' = [calculators EXCEPT ![CalculatorOf(w)] =
               Append(@, NewActivity(row.id, row.name, row.duration,
                                     JsonLoads(row.predecessors)))]
    /\ requests' = [requests EXCEPT ![w].done = @ + 1]
    /\ UNCHANGED <<calc, engine, extra>>

\* cpm_data = calculator.calculate_cpm()
Calculate(w) ==
    /\ requests[w].pc = "add"
    /\ requests[w].done = Len(requests[w].rows)
    /\ LET acts == calculators[CalculatorOf(w)]
       IN  IF acts = << >>
           THEN /\ calculators' = calculators
                /\ requests' = [requests EXCEPT ![w].pc = "error",
                                                ![w].cpm_data = ValueError]
           ELSE /\ calculators' = [calculators EXCEPT ![CalculatorOf(w)] =
                                      CpmActivities(acts)]
                /\ requests' = [requests EXCEPT ![w].pc = "gantt",
                                                ![w].cpm_data =
                                                    CpmReturn(acts)]
    /\ UNCHANGED <<calc, engine, extra>>

\* gantt_data = calculator.generate_gantt_data(project.start_date)
GanttOfRequest(w) ==
    /\ requests[w].pc = "gantt"
    /\ requests' = [requests EXCEPT
           ![w].pc = "render",
           ![w].gantt_data = GanttData(calculators[CalculatorOf(w)],
                                       requests[w].start_date)]
    /\ UNCHANGED <<calculators, calc, engine, extra>>

\* render_template(...) and the end of the request: the locals are dropped
Render(w) ==
    /\ requests[w].pc \in {"render", "error"}
    /\ requests' = [requests EXCEPT ![w] = NoRequest]
    /\ calculators' = [calculators EXCEPT ![CalculatorOf(w)] = << >>]
    /\ UNCHANGED <<calc, engine, extra>>

NextRequests ==
    \E w \in Workers :
        \/ LoadRows(w)
        \/ Construct(w)
        \/ AddRow(w)
        \/ Calculate(w)
        \/ GanttOfRequest(w)
        \/ Render(w)

SpecRequests == Init /\ [][NextRequests]_vars

(***************************************************************************)
(* new_activity of src/routes.py: the handler of the form that adds one    *)
(* ScheduleActivity row to a schedule.                                     *)
(***************************************************************************)
\* rows the table of the schedule can hold
MaxRows == 2

\* what a user types in the field predecessors: nothing, '1', '1,2',
\* '2, 1', ' 12 ', '-1', '1,,2', '1,', 'x', ' ', '1 2', '1,x'
FormTexts ==
    {<< >>,
     <<"1">>,
     <<"1", ",", "2">>,
     <<"2", ",", " ", "1">>,
     <<" ", "1", "2", " ">>,
     <<"-", "1">>,
     <<"1", ",", ",", "2">>,
     <<"1", ",">>,
     <<"x">>,
     <<" ">>,
     <<"1", " ", "2">>,
     <<"1", ",", "x">>}

\* the requests: a GET, or a POST of name, duration and predecessors
Forms ==
    [method : {"GET", "POST"}, name : {"", "act"}, duration : {0, 1, 2},
     predecessors : FormTexts]

\* form.validate_on_submit(): a POST whose name is present and whose
\* duration is an integer of at least 1
ValidateOnSubmit(form) ==
    /\ form.method = "POST"
    /\ form.name # ""
    /\ form.duration >= 1

\* [int(x.strip()) for x in data.split(',')]
ParsePredecessors(data) ==
    LET tokens == Split(data, ",")
    IN  IF \A k \in 1..Len(tokens) : IsIntText(Strip(tokens[k]))
        THEN [kind |-> "list",
              value |-> [k \in 1..Len(tokens) |-> IntOf(Strip(tokens[k]))]]
        ELSE [kind |-> "ValueError", value |-> << >>]

NewActivityRequest(form) ==
    /\ IF ValidateOnSubmit(form)
       THEN LET parsed == IF form.predecessors # << >>
                          THEN ParsePredecessors(form.predecessors)
                          ELSE [kind |-> "list", value |-> << >>]
            IN  IF parsed.kind = "ValueError"
                THEN /\ response' = [kind |-> "form", flash |-> "danger"]
                     /\ table' = table
                ELSE /\ table' = Append(table,
                                   Row(Len(table) + 1, form.duration,
                                       JsonDumps(parsed.value)))
                     /\ response' = [kind |-> "redirect",
                                     flash |-> "success"]
       ELSE /\ response' = [kind |-> "form", flash |-> "none"]
            /\ table' = table
    /\ UNCHANGED <<engine, requests, calculators, calc, frame, held>>

\* a browser sending any request while the table has room
Submit ==
    /\ Len(table) < MaxRows
    /\ \E form \in Forms : NewActivityRequest(form)

SpecForm == Init /\ [][Submit]_vars

(***************************************************************************)
(* calculate_cpm one loop iteration at a time.  frame holds the locals of  *)
(* the call: the loop it is in, the index of the activity the loop is at,  *)
(* project_duration, and how often each loop has visited each activity.    *)
(***************************************************************************)
StepDurSet == {1, 2}

\* the lists an engine can hold when calculate_cpm is called for the first
\* time: any ids, any predecessor lists, the empty list included
StepLists ==
    UNION {[1..n -> {NewActivity(id, name, duration, predecessors) :
                        id \in IdSet, name \in NameSet,
                        duration \in StepDurSet,
                        predecessors \in PredLists}] : n \in 0..MaxActs}

InitSteps ==
    /\ activities \in StepLists
    /\ call = NoCall
    /\ ret = NoneValue
    /\ requests = [w \in Workers |-> NoRequest]
    /\ calculators = [w \in Workers |-> << >>]
    /\ calc = NoCalc
    /\ InitExtra

\* the call is made: the forward loop is about to start
EnterCpm ==
    /\ frame.pc = "none"
    /\ frame' = [pc |-> "forward", i |-> 1, project_duration |-> 0,
                 forward |-> [k \in 1..Len(activities) |-> 0],
                 backward |-> [k \in 1..Len(activities) |-> 0]]
    /\ UNCHANGED <<engine, requests, calculators, calc, table, response,
                   held>>

\* a forward loop that computes an activity only once all the predecessors
\* it can find have been computed
ForwardIterWhenReady ==
    /\ frame.pc = "forward"
    /\ frame.i <= Len(activities)
    /\ \A k \in 1..Len(activities[frame.i].predecessors) :
          LET p == FindPred(activities, activities[frame.i].predecessors[k])
          IN  IF p = 0 THEN TRUE ELSE frame.forward[p] > 0
    /\ activities' = ForwardStep(activities, frame.i)
    /\ frame' = [frame EXCEPT !.i = @ + 1, !.forward[frame.i] = @ + 1]
    /\ UNCHANGED <<call, ret, requests, calculators, calc, table, response,
                   held>>

\* one iteration of 'for activity in self.activities'
ForwardIter ==
    /\ frame.pc = "forward"
    /\ frame.i <= Len(activities)
    /\ activities' = ForwardStep(activities, frame.i)
    /\ frame' = [frame EXCEPT !.i = @ + 1, !.forward[frame.i] = @ + 1]
    /\ UNCHANGED <<call, ret, requests, calculators, calc, table, response,
                   held>>

\* the forward loop is over: project_duration = max(...), which raises on an
\* empty list; then the backward loop starts at the last activity
EndForward ==
    /\ frame.pc = "forward"
    /\ frame.i > Len(activities)
    /\ IF activities = << >>
       THEN /\ frame' = [frame EXCEPT !.pc = "raised"]
            /\ call' = [op |-> "calculate_cpm", start_date |-> 0]
            /\ ret' = ValueError
       ELSE /\ frame' = [frame EXCEPT
                            !.pc = "backward",
                            !.i = Len(activities),
                            !.project_duration = ProjectDuration(activities)]
            /\ UNCHANGED <<call, ret>>
    /\ UNCHANGED <<activities, requests, calculators, calc, table, response,
                   held>>

\* one iteration of 'for activity in reversed(self.activities)'
BackwardIter ==
    /\ frame.pc = "backward"
    /\ frame.i >= 1
    /\ activities' = BackwardStep(activities, frame.i,
                                  frame.project_duration)
    /\ frame' = [frame EXCEPT !.i = @ - 1, !.backward[frame.i] = @ + 1]
    /\ UNCHANGED <<call, ret, requests, calculators, calc, table, response,
                   held>>

\* the backward loop is over: the critical path is collected and the dict
\* returned
ReturnCpm ==
    /\ frame.pc = "backward"
    /\ frame.i < 1
    /\ frame' = [frame EXCEPT !.pc = "returned"]
    /\ call' = [op |-> "calculate_cpm", start_date |-> 0]
    /\ ret' = [kind |-> "dict",
               project_duration |-> frame.project_duration,
               critical_path |-> CriticalPath(activities),
               critical_activities |-> CriticalActivities(activities),
               gantt |-> << >>]
    /\ UNCHANGED <<activities, requests, calculators, calc, table, response,
                   held>>

NextSteps ==
    \/ EnterCpm
    \/ ForwardIter
    \/ EndForward
    \/ BackwardIter
    \/ ReturnCpm

\* the thread that runs the call keeps running
SpecSteps == InitSteps /\ [][NextSteps]_vars /\ WF_vars(NextSteps)

(***************************************************************************)
(* ProductivityCalculator: two static methods on numbers.  A float is      *)
(* modelled by the rational <<numerator, denominator>> it stands for       *)
(* (denominator > 0), and round(x, n) by the nearest multiple of 10^-n,    *)
(* returned as the integer count of such multiples (round(1.0556, 3) is    *)
(* 1056), ties going to the even neighbour.                                *)
(***************************************************************************)
RECURSIVE Pow10(_)
Pow10(n) == IF n = 0 THEN 1 ELSE 10 * Pow10(n - 1)

\* a rounding that drops the digits after the n-th decimal
RoundDown(x, ndigits) == (x[1] * Pow10(ndigits)) \div x[2]

\* round(x, ndigits)
Round(x, ndigits) ==
    LET scaled == x[1] * Pow10(ndigits)
        q == scaled \div x[2]
        rem == scaled - q * x[2]
    IN  IF 2 * rem < x[2] THEN q
        ELSE IF 2 * rem > x[2] THEN q + 1
        ELSE IF q % 2 = 0 THEN q ELSE q + 1

\* the activities passed to calculate_s_curve: dicts with cost, duration and
\* early_start
MaxCurve == 2

CurveCostSet == {0, 2, 4}
CurveDurSet == {0, 1, 2}
CurveStartSet == {0, 1, 4}

CurveActivities ==
    [cost : CurveCostSet, duration : CurveDurSet, early_start : CurveStartSet]

CurveInputs == UNION {[1..n -> CurveActivities] : n \in 0..MaxCurve}

\* sum(a.get('cost', 0) for a in activities)
RECURSIVE TotalCost(_, _)
TotalCost(acts, i) ==
    IF i > Len(acts) THEN 0 ELSE acts[i].cost + TotalCost(acts, i + 1)

\* position of the key date_str in the dict, 0 when absent; the dict is the
\* sequence of its items in insertion order
KeyIndex(daily_costs, date_str) ==
    IF \E k \in 1..Len(daily_costs) : daily_costs[k].date = date_str
    THEN CHOOSE k \in 1..Len(daily_costs) : daily_costs[k].date = date_str
    ELSE 0

\* the loop over range(duration) for one activity; cost_per_day is added to
\* the entry of every day, as the rational <<n, d>>
RECURSIVE AddDays(_, _, _, _, _)
AddDays(daily_costs, activity_start, cost_per_day, day, duration) ==
    IF day >= duration THEN daily_costs
    ELSE LET date_str == FormatDate(activity_start + day)
             k == KeyIndex(daily_costs, date_str)
             with == IF k = 0
                     THEN Append(daily_costs,
                                 [date |-> date_str, cost |-> cost_per_day])
                     ELSE [daily_costs EXCEPT ![k].cost =
                              <<@[1] * cost_per_day[2] + cost_per_day[1] * @[2],
                                @[2] * cost_per_day[2]>>]
         IN  AddDays(with, activity_start, cost_per_day, day + 1, duration)

\* the loop over the activities
RECURSIVE DailyCosts(_, _, _, _)
DailyCosts(acts, i, start_date, daily_costs) ==
    IF i > Len(acts) THEN daily_costs
    ELSE DailyCosts(acts, i + 1, start_date,
                    AddDays(daily_costs, start_date + acts[i].early_start,
                            <<acts[i].cost, acts[i].duration>>, 0,
                            acts[i].duration))

\* the order of two 'YYYY-MM-DD' strings
DateStrLess(a, b) ==
    \/ a[1] < b[1]
    \/ a[1] = b[1] /\ a[2] < b[2]
    \/ a[1] = b[1] /\ a[2] = b[2] /\ a[3] < b[3]

\* the items in the order the dict holds them
InsertionOrder(daily_costs) == daily_costs

\* the items in the order of sorted(daily_costs.keys())
RECURSIVE SortedByDate(_)
SortedByDate(daily_costs) ==
    IF daily_costs = << >> THEN << >>
    ELSE LET k == CHOOSE i \in 1..Len(daily_costs) :
                    \A j \in 1..Len(daily_costs) :
                        j = i \/ DateStrLess(daily_costs[i].date,
                                             daily_costs[j].date)
             rest == [j \in 1..(Len(daily_costs) - 1) |->
                         IF j < k THEN daily_costs[j] ELSE daily_costs[j + 1]]
         IN  <<daily_costs[k]>> \o SortedByDate(rest)

\* the loop that accumulates the sorted days; cumulative_cost is a rational
RECURSIVE SCurveData(_, _, _, _)
SCurveData(days, k, cumulative_cost, total_cost) ==
    IF k > Len(days) THEN << >>
    ELSE LET cost == days[k].cost
             cumulative == <<cumulative_cost[1] * cost[2]
                               + cost[1] * cumulative_cost[2],
                             cumulative_cost[2] * cost[2]>>
             percentage == IF total_cost > 0
                           THEN <<cumulative[1] * 100,
                                  cumulative[2] * total_cost>>
                           ELSE <<0, 1>>
         IN  <<[date |-> days[k].date,
                daily_cost |-> Round(cost, 2),
                cumulative_cost |-> Round(cumulative, 2),
                percentage |-> Round(percentage, 2)]>>
             \o SCurveData(days, k + 1, cumulative, total_cost)

\* calculate_s_curve(activities, start_date); the division by a duration of
\* 0 raises
CalculateSCurve(acts, start_date) ==
    IF \E i \in 1..Len(acts) : acts[i].duration = 0
    THEN [kind |-> "ZeroDivisionError", rows |-> << >>]
    ELSE [kind |-> "list",
          rows |-> SCurveData(
                      SortedByDate(DailyCosts(acts, 1, start_date, << >>)),
                      1, <<0, 1>>, TotalCost(acts, 1))]

\* a caller about to pass some activities and a start date
InitCurve ==
    /\ activities = << >>
    /\ call = NoCall
    /\ ret = NoneValue
    /\ requests = [w \in Workers |-> NoRequest]
    /\ calculators = [w \in Workers |-> << >>]
    /\ InitExtra
    /\ \E acts \in CurveInputs, start_date \in StartDates :
           calc = [op |-> "arguments", args |-> <<acts, start_date>>,
                   result |-> << >>]

SCurve ==
    /\ calc.op = "arguments"
    /\ calc' = [op |-> "calculate_s_curve", args |-> calc.args,
                result |-> CalculateSCurve(calc.args[1], calc.args[2])]
    /\ UNCHANGED <<engine, requests, calculators, extra>>

SpecCurve == InitCurve /\ [][SCurve]_vars

\* planned_cost, actual_cost and earned_value passed to
\* calculate_progress_metrics
AmountSet == {0 - 900, 0, 3, 900, 950, 1000}

\* value / cost if cost > 0 else 0
PerformanceIndex(value, cost) == IF cost > 0 THEN <<value, cost>> ELSE <<0, 1>>

\* calculate_progress_metrics(planned_cost, actual_cost, earned_value)
CalculateProgressMetrics(planned_cost, actual_cost, earned_value) ==
    LET cost_variance == <<earned_value - actual_cost, 1>>
        schedule_variance == <<earned_value - planned_cost, 1>>
        cost_performance_index == PerformanceIndex(earned_value, actual_cost)
        schedule_performance_index ==
            PerformanceIndex(earned_value, planned_cost)
        Efficiency(index) == <<index[1] * 100 - 100 * index[2], index[2]>>
    IN  [cost_variance |-> Round(cost_variance, 2),
         schedule_variance |-> Round(schedule_variance, 2),
         cost_performance_index |-> Round(cost_performance_index, 3),
         schedule_performance_index |-> Round(schedule_performance_index, 3),
         budget_efficiency |-> Round(Efficiency(cost_performance_index), 1),
         schedule_efficiency |->
             Round(Efficiency(schedule_performance_index), 1)]

\* a caller about to pass three amounts
InitMetrics ==
    /\ activities = << >>
    /\ call = NoCall
    /\ ret = NoneValue
    /\ requests = [w \in Workers |-> NoRequest]
    /\ calculators = [w \in Workers |-> << >>]
    /\ InitExtra
    /\ \E planned_cost, actual_cost, earned_value \in AmountSet :
           calc = [op |-> "arguments",
                   args |-> <<planned_cost, actual_cost, earned_value>>,
                   result |-> << >>]

ProgressMetrics ==
    /\ calc.op = "arguments"
    /\ calc' = [op |-> "calculate_progress_metrics", args |-> calc.args,
                result |-> CalculateProgressMetrics(
                               calc.args[1], calc.args[2], calc.args[3])]
    /\ UNCHANGED <<engine, requests, calculators, extra>>

SpecMetrics == InitMetrics /\ [][ProgressMetrics]_vars

(***************************************************************************)
(* Vocabulary of the properties: the base inputs of a list, its shape,     *)
(* and reference values computed from the base inputs alone.               *)
(***************************************************************************)
AfterCpm == call.op = "calculate_cpm"

AfterGantt == call.op = "generate_gantt_data"

\* the list a freshly constructed engine holds after the same add_activity
\* calls: every computed field back at its initial value
BaseInputs(acts) ==
    [k \in 1..Len(acts) |->
        NewActivity(acts[k].id, acts[k].name, acts[k].duration,
                    acts[k].predecessors)]

Ids(acts) == {acts[k].id : k \in 1..Len(acts)}

UniqueIds(acts) ==
    \A i, j \in 1..Len(acts) : acts[i].id = acts[j].id => i = j

\* every predecessor id names an activity added earlier, or none at all
DependencyOrder(acts) ==
    \A i \in 1..Len(acts) : \A j \in i..Len(acts) :
        acts[j].id \notin Range(acts[i].predecessors)

\* indices reachable from i along predecessor ids in at most n steps
RECURSIVE PredClosure(_, _, _)
PredClosure(acts, S, n) ==
    IF n = 0 THEN S
    ELSE PredClosure(acts,
             S \cup {j \in 1..Len(acts) :
                       \E i \in S : acts[j].id \in Range(acts[i].predecessors)},
             n - 1)

\* some activity is its own (transitive) predecessor
HasCycle(acts) ==
    \E i \in 1..Len(acts) :
        i \in PredClosure(acts,
                 {j \in 1..Len(acts) :
                    acts[j].id \in Range(acts[i].predecessors)},
                 Len(acts))

\* the inputs the data model allows: distinct ids, an acyclic predecessor
\* relation and durations of at least one day
ValidInputs(acts) ==
    /\ UniqueIds(acts)
    /\ ~HasCycle(acts)
    /\ \A k \in 1..Len(acts) : acts[k].duration >= 1

(***************************************************************************)
(* C1: calling calculate_cpm twice in a row, with no add_activity in       *)
(* between, leaves every computed field of every activity and the returned *)
(* project_duration and critical_path as they were after the first call,   *)
(* for every activity set and insertion order.  Stated for the activity    *)
(* sets the data model allows, in any insertion order.                     *)
(***************************************************************************)
C1_Idempotent ==
    [][(AfterCpm /\ call'.op = "calculate_cpm" /\ ValidInputs(activities))
          => (activities' = activities /\ ret' = ret)]_vars

(***************************************************************************)
(* C3: calculate_cpm on an engine without activities does not raise; it    *)
(* returns a result with project_duration 0 and an empty critical_path.    *)
(***************************************************************************)
C3_EmptyResult ==
    (AfterCpm /\ activities = << >>)
        => (ret.kind = "dict" /\ ret.project_duration = 0
              /\ ret.critical_path = << >>)

(***************************************************************************)
(* C4: calculate_cpm on a cyclic predecessor relation does not run the     *)
(* passes: it fails with InvalidScheduleError and leaves the computed      *)
(* fields unchanged.  Stated for cyclic sets with distinct ids and         *)
(* durations of at least one day.                                          *)
(***************************************************************************)
C4_CycleRejected ==
    [][(/\ call'.op = "calculate_cpm"
        /\ HasCycle(activities)
        /\ UniqueIds(activities)
        /\ \A k \in 1..Len(activities) : activities[k].duration >= 1)
          => (ret'.kind = "InvalidScheduleError"
                /\ activities' = activities)]_vars

(***************************************************************************)
(* C6: the result of the last calculate_cpm equals that of a freshly       *)
(* constructed engine given the same activities in the same order:         *)
(* computed values of earlier runs never influence a later run.  Stated    *)
(* for the activity sets the data model allows, in any insertion order.    *)
(***************************************************************************)
C6_Reentrant ==
    (AfterCpm /\ activities # << >> /\ ValidInputs(activities))
        => /\ activities = CpmActivities(BaseInputs(activities))
           /\ ret = CpmReturn(BaseInputs(activities))

(***************************************************************************)
(* Reference values of the forward pass, from the predecessor relation.    *)
(***************************************************************************)
\* indices of the predecessors of activity i that exist in the list
KnownPreds(acts, i) ==
    {FindPred(acts, acts[i].predecessors[k]) :
        k \in 1..Len(acts[i].predecessors)} \ {0}

\* the maximum early_finish over the existing predecessors, 0 without any
RefEarlyStart(acts, i) ==
    IF KnownPreds(acts, i) = {} THEN 0
    ELSE MaxOf({acts[j].early_finish : j \in KnownPreds(acts, i)})

\* length of the longest duration-weighted predecessor chain ending at i,
\* from the durations alone (acyclic relations only)
RECURSIVE LongestChain(_, _)
LongestChain(acts, i) ==
    acts[i].duration +
        (IF KnownPreds(acts, i) = {} THEN 0
         ELSE MaxOf({LongestChain(acts, j) : j \in KnownPreds(acts, i)}))

NonNegativeDurations(acts) == \A k \in 1..Len(acts) : acts[k].duration >= 0

EarlyTimesCorrect(acts) ==
    \A i \in 1..Len(acts) :
        /\ acts[i].early_start = RefEarlyStart(acts, i)
        /\ acts[i].early_finish = acts[i].early_start + acts[i].duration
        /\ acts[i].early_finish = LongestChain(acts, i)

(***************************************************************************)
(* C2 as stated: for any acyclic activity set with unique ids added in     *)
(* dependency order, calculate_cpm sets early_start to the maximum         *)
(* early_finish over the existing predecessors (0 without any) and         *)
(* early_finish to early_start + duration, the longest predecessor chain.  *)
(***************************************************************************)
C2_EarlyTimesAnyDuration ==
    (AfterCpm /\ UniqueIds(activities) /\ DependencyOrder(activities))
        => EarlyTimesCorrect(activities)

(***************************************************************************)
(* C2 amended: the same, for activity sets whose durations are all >= 0.   *)
(***************************************************************************)
C2_EarlyTimes ==
    (/\ AfterCpm
     /\ UniqueIds(activities)
     /\ DependencyOrder(activities)
     /\ NonNegativeDurations(activities))
        => EarlyTimesCorrect(activities)

\* calculate_cpm has run on three activities, the last one waiting for two
\* existing predecessors that finish at different times
C2_Witness ==
    /\ AfterCpm
    /\ UniqueIds(activities)
    /\ DependencyOrder(activities)
    /\ NonNegativeDurations(activities)
    /\ Len(activities) = 3
    /\ KnownPreds(activities, 3) = {1, 2}
    /\ activities[1].early_finish > activities[2].early_finish
    /\ activities[3].early_start = activities[1].early_finish

(***************************************************************************)
(* C5: a predecessor id that matches no activity does not make             *)
(* calculate_cpm raise and contributes nothing: both passes compute what   *)
(* they compute with the unknown ids removed from every predecessor list,  *)
(* and an activity whose predecessors are all unknown gets early_start 0.  *)
(***************************************************************************)
\* the list with every predecessor id that matches no activity removed
StripUnknown(acts) ==
    [k \in 1..Len(acts) |->
        [acts[k] EXCEPT !.predecessors =
            SelectSeq(@, LAMBDA p : p \in Ids(acts))]]

SameComputed(a, b) ==
    /\ Len(a) = Len(b)
    /\ \A k \in 1..Len(a) :
        /\ a[k].early_start = b[k].early_start
        /\ a[k].early_finish = b[k].early_finish
        /\ a[k].late_start = b[k].late_start
        /\ a[k].late_finish = b[k].late_finish
        /\ a[k].slack = b[k].slack
        /\ a[k].is_critical = b[k].is_critical

HasUnknownPred(acts, k) ==
    \E p \in Range(acts[k].predecessors) : p \notin Ids(acts)

C5_UnknownPredIgnored ==
    [][(call'.op = "calculate_cpm" /\ activities # << >>)
          => /\ ret'.kind = "dict"
             /\ SameComputed(activities',
                             CpmActivities(StripUnknown(activities)))
             /\ ret'.project_duration =
                    ProjectDuration(CpmActivities(StripUnknown(activities)))
             /\ \A k \in 1..Len(activities) :
                    (Range(activities[k].predecessors) \cap Ids(activities) = {})
                        => activities'[k].early_start = 0]_vars

\* calculate_cpm has run on a list whose second activity names an unknown
\* id and the first activity, which finishes after time 0
C5_Witness ==
    /\ AfterCpm
    /\ Len(activities) = 2
    /\ UniqueIds(activities)
    /\ activities[1].early_finish > 0
    /\ HasUnknownPred(activities, 2)
    /\ KnownPreds(activities, 2) = {1}
    /\ activities[2].early_start = activities[1].early_finish

(***************************************************************************)
(* C7: generate_gantt_data changes no field of any activity and neither    *)
(* the length nor the order of the engine's list.  calculate_cpm reads     *)
(* nothing but that list, so a calculate_cpm that follows any number of    *)
(* such calls returns what it would have returned without them.            *)
(***************************************************************************)
C7_GanttPure ==
    [][(call'.op = "generate_gantt_data")
          => /\ Len(activities') = Len(activities)
             /\ \A k \in 1..Len(activities) :
                    activities'[k] = activities[k]]_vars

\* generate_gantt_data has run on a computed schedule of two activities
C7_Witness ==
    /\ AfterGantt
    /\ Len(activities) = 2
    /\ Len(ret.gantt) = 2
    /\ activities[2].early_start > 0

(***************************************************************************)
(* C8: the records of generate_gantt_data(d2) differ from those of         *)
(* generate_gantt_data(d1) only in start_date and end_date, each shifted   *)
(* by exactly d2 - d1 days; the other fields and the order are the same.   *)
(***************************************************************************)
\* the ordinal of the calendar date <<year, month, day>>
DateOrdinal(ymd) ==
    LET y == ymd[1] - (IF ymd[2] <= 2 THEN 1 ELSE 0)
        era == y \div 400
        yoe == y - era * 400
        mp == IF ymd[2] > 2 THEN ymd[2] - 3 ELSE ymd[2] + 9
        doy == (153 * mp + 2) \div 5 + ymd[3] - 1
        doe == yoe * 365 + yoe \div 4 - yoe \div 100 + doy
    IN  era * 146097 + doe - 305

ShiftedBy(g1, g2, days) ==
    /\ Len(g1) = Len(g2)
    /\ \A k \in 1..Len(g1) :
        /\ DateOrdinal(g2[k].start_date) - DateOrdinal(g1[k].start_date) = days
        /\ DateOrdinal(g2[k].end_date) - DateOrdinal(g1[k].end_date) = days
        /\ g2[k].id = g1[k].id
        /\ g2[k].name = g1[k].name
        /\ g2[k].duration = g1[k].duration
        /\ g2[k].slack = g1[k].slack
        /\ g2[k].is_critical = g1[k].is_critical
        /\ g2[k].predecessors = g1[k].predecessors

C8_GanttShift ==
    AfterGantt =>
        \A d2 \in StartDates :
            ShiftedBy(ret.gantt, GanttData(activities, d2),
                      d2 - call.start_date)

\* generate_gantt_data has run on a computed schedule whose dates cross the
\* end of February or of the year
C8_Witness ==
    /\ AfterGantt
    /\ Len(ret.gantt) = 2
    /\ activities[2].early_start > 0
    /\ ret.gantt[2].end_date[2] # ret.gantt[1].start_date[2]

(***************************************************************************)
(* C9 as stated: for a linear chain added in dependency order,             *)
(* calculate_cpm returns project_duration equal to the sum of the          *)
(* durations, and every activity has slack 0 and is critical.              *)
(***************************************************************************)
IsChain(acts) ==
    /\ acts # << >>
    /\ UniqueIds(acts)
    /\ acts[1].predecessors = << >>
    /\ \A k \in 2..Len(acts) : acts[k].predecessors = <<acts[k - 1].id>>

RECURSIVE SumDurations(_, _)
SumDurations(acts, k) ==
    IF k = 0 THEN 0 ELSE acts[k].duration + SumDurations(acts, k - 1)

ChainResult ==
    /\ ret.kind = "dict"
    /\ ret.project_duration = SumDurations(activities, Len(activities))
    /\ \A k \in 1..Len(activities) :
        activities[k].slack = 0 /\ activities[k].is_critical
    /\ ret.critical_path = [k \in 1..Len(activities) |-> activities[k].id]

C9_ChainAnyDuration == (AfterCpm /\ IsChain(activities)) => ChainResult

(***************************************************************************)
(* C9 amended: the same, for chains whose durations are all >= 0.          *)
(***************************************************************************)
C9_Chain ==
    (AfterCpm /\ IsChain(activities) /\ NonNegativeDurations(activities))
        => ChainResult

\* calculate_cpm has run on the chain with durations 3, 2, 4
C9_Witness ==
    /\ AfterCpm
    /\ IsChain(activities)
    /\ Len(activities) = 3
    /\ activities[1].duration = 3
    /\ activities[2].duration = 2
    /\ activities[3].duration = 4
    /\ ret.project_duration = 9
    /\ ret.critical_path = <<1, 2, 3>>

(***************************************************************************)
(* C10 as stated: for the fork-join schedule A -> {B, C} -> D added in the *)
(* order A, B, C, D, project_duration = dur(A) + max(dur(B), dur(C)) +     *)
(* dur(D); A, D and the longer of B and C have slack 0 and the shorter     *)
(* branch has slack |dur(B) - dur(C)|.                                     *)
(***************************************************************************)
IsForkJoin(acts) ==
    /\ Len(acts) = Len(ForkPreds)
    /\ \A k \in 1..Len(acts) :
        acts[k].id = k /\ acts[k].predecessors = ForkPreds[k]

ForkJoinResult ==
    LET dA == activities[1].duration
        dB == activities[2].duration
        dC == activities[3].duration
        dD == activities[4].duration
    IN  /\ ret.kind = "dict"
        /\ ret.project_duration = dA + Max2(dB, dC) + dD
        /\ activities[1].slack = 0
        /\ activities[4].slack = 0
        /\ activities[2].slack = Max2(dB, dC) - dB
        /\ activities[3].slack = Max2(dB, dC) - dC
        /\ Abs(activities[2].slack - activities[3].slack) = Abs(dB - dC)

C10_ForkJoinAnyDuration == (AfterCpm /\ IsForkJoin(activities)) => ForkJoinResult

(***************************************************************************)
(* C10 amended: the same, for durations that are all >= 0.                 *)
(***************************************************************************)
C10_ForkJoin ==
    (AfterCpm /\ IsForkJoin(activities) /\ NonNegativeDurations(activities))
        => ForkJoinResult

\* calculate_cpm has run on A=3, B=5, C=2, D=1
C10_Witness ==
    /\ AfterCpm
    /\ IsForkJoin(activities)
    /\ activities[1].duration = 3
    /\ activities[2].duration = 5
    /\ activities[3].duration = 2
    /\ activities[4].duration = 1
    /\ ret.project_duration = 9
    /\ activities[2].is_critical
    /\ activities[4].is_critical
    /\ activities[3].slack = 3
    /\ ret.critical_path = <<1, 2, 4>>

(***************************************************************************)
(* C11: in an engine holding exactly one activity, with no predecessors    *)
(* and duration d >= 1, calculate_cpm yields early_start 0, early_finish   *)
(* = late_finish = d, late_start 0, slack 0, is_critical, project_duration *)
(* d and critical_path equal to the one id.                                *)
(***************************************************************************)
C11_SingleActivity ==
    (/\ AfterCpm
     /\ Len(activities) = 1
     /\ activities[1].predecessors = << >>
     /\ activities[1].duration >= 1)
        => /\ activities[1].early_start = 0
           /\ activities[1].early_finish = activities[1].duration
           /\ activities[1].late_finish = activities[1].duration
           /\ activities[1].late_start = 0
           /\ activities[1].slack = 0
           /\ activities[1].is_critical
           /\ ret.kind = "dict"
           /\ ret.project_duration = activities[1].duration
           /\ ret.critical_path = <<activities[1].id>>

\* calculate_cpm has run on a single activity of 4 days
C11_Witness ==
    /\ AfterCpm
    /\ Len(activities) = 1
    /\ activities[1].predecessors = << >>
    /\ activities[1].duration = 4
    /\ ret.project_duration = 4

(***************************************************************************)
(* C12: after calculate_cpm on a non-empty activity set, the returned      *)
(* project_duration is the maximum early_finish over all activities of the *)
(* engine, whatever the predecessor relation or insertion order.           *)
(***************************************************************************)
C12_ProjectDuration ==
    (AfterCpm /\ activities # << >>)
        => /\ ret.kind = "dict"
           /\ \E k \in 1..Len(activities) :
                activities[k].early_finish = ret.project_duration
           /\ \A k \in 1..Len(activities) :
                activities[k].early_finish <= ret.project_duration

\* calculate_cpm has run on two activities, the first finishing last
C12_Witness ==
    /\ AfterCpm
    /\ Len(activities) = 2
    /\ activities[1].early_finish > activities[2].early_finish
    /\ ret.project_duration = activities[1].early_finish

(***************************************************************************)
(* C13 as stated: for every activity record of the engine, is_critical is  *)
(* true if and only if slack = 0, and slack = late_start - early_start, in *)
(* every state reachable through add_activity and calculate_cpm.           *)
(***************************************************************************)
C13_CriticalIffNoSlackAlways ==
    \A k \in 1..Len(activities) :
        /\ activities[k].is_critical <=> (activities[k].slack = 0)
        /\ activities[k].slack =
               activities[k].late_start - activities[k].early_start

\* a record whose computed fields are as add_activity left them
IsFresh(a) ==
    /\ a.early_start = 0
    /\ a.early_finish = 0
    /\ a.late_start = 0
    /\ a.late_finish = 0
    /\ a.slack = 0
    /\ a.is_critical = FALSE

(***************************************************************************)
(* C13 amended: slack = late_start - early_start in every reachable state; *)
(* is_critical is true iff slack = 0 for every record that calculate_cpm   *)
(* has computed, so for every record right after calculate_cpm; a record   *)
(* still as add_activity left it has slack 0 and is_critical false.        *)
(***************************************************************************)
C13_CriticalIffNoSlack ==
    /\ \A k \in 1..Len(activities) :
        /\ activities[k].slack =
               activities[k].late_start - activities[k].early_start
        /\ (activities[k].is_critical <=> (activities[k].slack = 0))
              \/ IsFresh(activities[k])
    /\ AfterCpm =>
        \A k \in 1..Len(activities) :
            activities[k].is_critical <=> (activities[k].slack = 0)

\* calculate_cpm has left one activity critical and one with negative slack
C13_Witness ==
    /\ AfterCpm
    /\ Len(activities) = 2
    /\ activities[1].is_critical
    /\ activities[2].slack < 0
    /\ ~activities[2].is_critical

(***************************************************************************)
(* C14 as stated: with durations >= 1, early_finish = early_start +        *)
(* duration and late_start = late_finish - duration hold for every record  *)
(* in every state reachable through add_activity, calculate_cpm and        *)
(* generate_gantt_data.                                                    *)
(***************************************************************************)
DurationsAtLeastOne(acts) == \A k \in 1..Len(acts) : acts[k].duration >= 1

C14_TimesConsistentAlways ==
    DurationsAtLeastOne(activities) =>
        \A k \in 1..Len(activities) :
            /\ activities[k].early_finish =
                   activities[k].early_start + activities[k].duration
            /\ activities[k].late_start =
                   activities[k].late_finish - activities[k].duration

(***************************************************************************)
(* C14 amended: with durations >= 1, the two equations hold for every      *)
(* record that calculate_cpm has computed, so for every record right after *)
(* calculate_cpm; a record still as add_activity left it has all four      *)
(* times at 0.                                                             *)
(***************************************************************************)
C14_TimesConsistent ==
    DurationsAtLeastOne(activities) =>
        /\ \A k \in 1..Len(activities) :
            \/ IsFresh(activities[k])
            \/ /\ activities[k].early_finish =
                      activities[k].early_start + activities[k].duration
               /\ activities[k].late_start =
                      activities[k].late_finish - activities[k].duration
        /\ AfterCpm => \A k \in 1..Len(activities) : ~IsFresh(activities[k])

\* generate_gantt_data has run on a computed schedule whose second activity
\* starts after time 0
C14_Witness ==
    /\ AfterGantt
    /\ Len(activities) = 2
    /\ DurationsAtLeastOne(activities)
    /\ activities[2].early_start > 0
    /\ activities[2].early_finish > activities[2].early_start
    /\ ~IsFresh(activities[1])

(***************************************************************************)
(* C15: the critical_path returned by calculate_cpm is exactly the list of *)
(* ids of the activities whose is_critical is true after the backward      *)
(* pass, in insertion order, and critical_activities is the list of the    *)
(* same activities' records, in the same order and of the same length.     *)
(***************************************************************************)
C15_CriticalPath ==
    (AfterCpm /\ activities # << >>)
        => LET cp == ret.critical_path
               ca == ret.critical_activities
           IN  /\ Len(ca) = Len(cp)
               /\ \A j \in 1..Len(ca) :
                    /\ ca[j] \in 1..Len(activities)
                    /\ activities[ca[j]].is_critical
                    /\ cp[j] = activities[ca[j]].id
               /\ \A j \in 1..(Len(ca) - 1) : ca[j] < ca[j + 1]
               /\ \A k \in 1..Len(activities) :
                    activities[k].is_critical => k \in Range(ca)

\* calculate_cpm has found both activities critical, the second id first
C15_Witness ==
    /\ AfterCpm
    /\ Len(activities) = 2
    /\ activities[1].id = 2
    /\ activities[2].id = 1
    /\ ret.critical_path = <<2, 1>>
    /\ ret.critical_activities = <<1, 2>>

(***************************************************************************)
(* C16: add_activity never fails, whatever the duration (0 and negative    *)
(* included) and the id (one already present included): it appends exactly *)
(* one record at the end of the list, with the given id, name, duration    *)
(* and predecessors (the empty list when omitted), every computed field 0  *)
(* and is_critical false, and leaves every record added before, computed   *)
(* fields included, unchanged.                                             *)
(***************************************************************************)
C16_AddActivity ==
    /\ [](\A id \in IdSet, name \in NameSet, duration \in AddDurSet,
            opt \in OptPredLists :
              ENABLED AddActivity(id, name, duration,
                                  PredecessorsOrEmpty(opt)))
    /\ [][\A id \in IdSet, name \in NameSet, duration \in AddDurSet,
            opt \in OptPredLists :
              AddActivity(id, name, duration, PredecessorsOrEmpty(opt))
                => /\ Len(activities') = Len(activities) + 1
                   /\ \A k \in 1..Len(activities) :
                        activities'[k] = activities[k]
                   /\ LET a == activities'[Len(activities')]
                      IN  /\ a.id = id
                          /\ a.name = name
                          /\ a.duration = duration
                          /\ a.predecessors =
                                IF opt = << >> THEN << >> ELSE opt[1]
                          /\ IsFresh(a)
                   /\ ret' = NoneValue]_vars

\* an activity of duration 0 was added without predecessors under an id that
\* a computed record already holds
C16_Witness ==
    /\ call.op = "add_activity"
    /\ Len(activities) = 2
    /\ activities[2].id = activities[1].id
    /\ activities[2].duration = 0
    /\ activities[2].predecessors = << >>
    /\ IsFresh(activities[2])
    /\ activities[1].is_critical
    /\ activities[1].duration < 0

\* the engine a request builds from its rows when nothing else touches it
EngineOfRows(rows) ==
    [k \in 1..Len(rows) |->
        NewActivity(rows[k].id, rows[k].name, rows[k].duration,
                    JsonLoads(rows[k].predecessors))]

(***************************************************************************)
(* C17: every schedule_detail request works on a ScheduleCalculator of its *)
(* own, so in any interleaving of concurrent requests no request reads or  *)
(* overwrites computed fields written by another: at every step the        *)
(* calculator of a request holds what its own rows and its own calls       *)
(* produce, and cpm_data and gantt_data are those of a request served      *)
(* alone.                                                                  *)
(***************************************************************************)
C17_RequestsIsolated ==
    \A w \in Workers :
        LET q == requests[w]
            own == EngineOfRows(q.rows)
        IN  /\ q.pc = "add" =>
                calculators[w] = SubSeq(own, 1, q.done)
            /\ q.pc = "gantt" =>
                /\ calculators[w] = CpmActivities(own)
                /\ q.cpm_data = CpmReturn(own)
            /\ q.pc = "render" =>
                \/ /\ q.rows = << >>
                   /\ q.cpm_data = NoneValue
                   /\ q.gantt_data = << >>
                \/ /\ q.rows # << >>
                   /\ calculators[w] = CpmActivities(own)
                   /\ q.cpm_data = CpmReturn(own)
                   /\ q.gantt_data = GanttData(CpmActivities(own),
                                               q.start_date)
            /\ q.pc # "error"

\* one request has computed its schedule while another, on other rows, is
\* halfway through filling its calculator
C17_Witness ==
    \E w, v \in Workers :
        /\ w # v
        /\ requests[w].pc = "gantt"
        /\ Len(requests[w].rows) = 2
        /\ requests[w].cpm_data.critical_path = <<1, 2>>
        /\ requests[v].pc = "add"
        /\ requests[v].done = 1
        /\ requests[v].rows # requests[w].rows
        /\ Len(requests[v].rows) = 2

\* the calendar days (as ordinals) covered by some activity of the list
CoveredDays(acts, start_date) ==
    UNION {{start_date + acts[i].early_start + day :
               day \in 0..(acts[i].duration - 1)} : i \in 1..Len(acts)}

(***************************************************************************)
(* C18: for any list of activities with duration >= 1 and cost > 0 each    *)
(* (cost / duration exact), calculate_s_curve returns a series in          *)
(* ascending date order with one entry per distinct calendar day covered   *)
(* by some activity, whose cumulative_cost never decreases and ends at the *)
(* sum of all costs, the last percentage being 100.                        *)
(***************************************************************************)
C18_SCurveConserves ==
    LET acts == calc.args[1]
        start_date == calc.args[2]
        rows == calc.result.rows
    IN  (/\ calc.op = "calculate_s_curve"
         /\ \A i \in 1..Len(acts) :
                acts[i].duration >= 1 /\ acts[i].cost > 0)
            => /\ calc.result.kind = "list"
               /\ \A k \in 1..(Len(rows) - 1) :
                    DateOrdinal(rows[k].date) < DateOrdinal(rows[k + 1].date)
               /\ {DateOrdinal(rows[k].date) : k \in 1..Len(rows)}
                     = CoveredDays(acts, start_date)
               /\ \A k \in 1..(Len(rows) - 1) :
                    rows[k].cumulative_cost <= rows[k + 1].cumulative_cost
               /\ acts # << >> =>
                    /\ rows # << >>
                    /\ rows[Len(rows)].cumulative_cost
                          = 100 * TotalCost(acts, 1)
                    /\ rows[Len(rows)].percentage = 100 * 100

\* the curve of an activity of 2 days starting on 2025-01-03 and a second one
\* of 1 day starting on 2024-12-31: three entries, the later-listed activity
\* first, ending at the total cost 6.00
C18_Witness ==
    /\ calc.op = "calculate_s_curve"
    /\ Len(calc.args[1]) = 2
    /\ calc.args[1][1].early_start = 4
    /\ calc.args[1][1].duration = 2
    /\ calc.args[1][1].cost = 4
    /\ calc.args[1][2].early_start = 1
    /\ calc.args[1][2].duration = 1
    /\ calc.args[1][2].cost = 2
    /\ Len(calc.result.rows) = 3
    /\ calc.result.rows[1].date = <<2024, 12, 31>>
    /\ calc.result.rows[3].date = <<2025, 1, 4>>
    /\ calc.result.rows[3].cumulative_cost = 600

\* v counts the multiples of 10^-ndigits nearest to the quotient n / d
IsRoundedQuotient(v, n, d, ndigits) ==
    2 * Abs(v * d - n * Pow10(ndigits)) <= Abs(d)

(***************************************************************************)
(* C19 as stated: calculate_progress_metrics never raises on a zero        *)
(* divisor; cost_performance_index is 0 when actual_cost = 0 and           *)
(* earned_value / actual_cost (to the 3 decimals returned) for every other *)
(* actual_cost; schedule_performance_index likewise with planned_cost;     *)
(* cost_variance = earned_value - actual_cost and schedule_variance =      *)
(* earned_value - planned_cost.                                            *)
(***************************************************************************)
C19_IndicesAnyDivisor ==
    calc.op = "calculate_progress_metrics" =>
        LET planned_cost == calc.args[1]
            actual_cost == calc.args[2]
            earned_value == calc.args[3]
            r == calc.result
        IN  /\ actual_cost = 0 => r.cost_performance_index = 0
            /\ actual_cost # 0 =>
                 IsRoundedQuotient(r.cost_performance_index, earned_value,
                                   actual_cost, 3)
            /\ planned_cost = 0 => r.schedule_performance_index = 0
            /\ planned_cost # 0 =>
                 IsRoundedQuotient(r.schedule_performance_index,
                                   earned_value, planned_cost, 3)
            /\ r.cost_variance = 100 * (earned_value - actual_cost)
            /\ r.schedule_variance = 100 * (earned_value - planned_cost)

(***************************************************************************)
(* C19 amended: calculate_progress_metrics never raises on a zero divisor; *)
(* cost_performance_index is 0 when actual_cost <= 0 and earned_value /    *)
(* actual_cost rounded to 3 decimals when actual_cost > 0;                 *)
(* schedule_performance_index likewise with planned_cost; cost_variance =  *)
(* earned_value - actual_cost and schedule_variance = earned_value -       *)
(* planned_cost.                                                           *)
(***************************************************************************)
C19_Indices ==
    calc.op = "calculate_progress_metrics" =>
        LET planned_cost == calc.args[1]
            actual_cost == calc.args[2]
            earned_value == calc.args[3]
            r == calc.result
        IN  /\ actual_cost <= 0 => r.cost_performance_index = 0
            /\ actual_cost > 0 =>
                 IsRoundedQuotient(r.cost_performance_index, earned_value,
                                   actual_cost, 3)
            /\ planned_cost <= 0 => r.schedule_performance_index = 0
            /\ planned_cost > 0 =>
                 IsRoundedQuotient(r.schedule_performance_index,
                                   earned_value, planned_cost, 3)
            /\ r.cost_variance = 100 * (earned_value - actual_cost)
            /\ r.schedule_variance = 100 * (earned_value - planned_cost)

\* planned 1000, nothing spent, earned 950: CPI 0, SPI 0.950, CV 950.00
C19_Witness ==
    /\ calc.op = "calculate_progress_metrics"
    /\ calc.args = <<1000, 0, 950>>
    /\ calc.result.cost_performance_index = 0
    /\ calc.result.schedule_performance_index = 950
    /\ calc.result.cost_variance = 95000
    /\ calc.result.schedule_variance = 0 - 5000

(***************************************************************************)
(* C20: whenever calculate_cpm runs on a list in which an activity X was   *)
(* added before one of its predecessors P, the forward pass uses 0 for P's *)
(* early_finish when it computes X's early_start, on the first call and on *)
(* every later call: X's early_start is the maximum of 0 and the           *)
(* early_finish of its predecessors added before it.  Stated for valid     *)
(* inputs (distinct ids, no cycle, durations >= 1).                        *)
(***************************************************************************)
C20_StaleValueIsZero ==
    (AfterCpm /\ ValidInputs(activities))
        => \A x \in 1..Len(activities) :
             (\E p \in (x + 1)..Len(activities) :
                 activities[p].id \in Range(activities[x].predecessors))
               => activities[x].early_start =
                    MaxOf({0} \cup
                          {activities[e].early_finish : e \in
                             {j \in 1..(x - 1) : activities[j].id \in
                                  Range(activities[x].predecessors)}})

\* the other activities that name activity i as a predecessor
NamedBy(acts, i) ==
    {j \in 1..Len(acts) :
        j # i /\ acts[i].id \in Range(acts[j].predecessors)}

(***************************************************************************)
(* C21: in the backward pass an activity that lists its own id among its   *)
(* predecessors is not counted as its own successor: when no other         *)
(* activity names it, its late_finish is project_duration.  Stated for     *)
(* distinct ids and durations >= 1.                                        *)
(***************************************************************************)
C21_NotItsOwnSuccessor ==
    (/\ AfterCpm
     /\ UniqueIds(activities)
     /\ DurationsAtLeastOne(activities))
        => \A i \in 1..Len(activities) :
             (/\ activities[i].id \in Range(activities[i].predecessors)
              /\ NamedBy(activities, i) = {})
               => activities[i].late_finish = ret.project_duration

(***************************************************************************)
(* C22: after calculate_cpm on an acyclic activity set with unique ids in  *)
(* which every activity is added after all of its predecessors, every      *)
(* activity that no other activity names as predecessor has late_finish =  *)
(* project_duration, and every other activity has late_finish equal to the *)
(* minimum of the final late_start of the activities that name it.         *)
(***************************************************************************)
C22_LateFinish ==
    (/\ AfterCpm
     /\ activities # << >>
     /\ UniqueIds(activities)
     /\ DependencyOrder(activities))
        => \A i \in 1..Len(activities) :
             activities[i].late_finish =
                IF NamedBy(activities, i) = {}
                THEN ret.project_duration
                ELSE MinOf({activities[j].late_start :
                               j \in NamedBy(activities, i)})

\* calculate_cpm has run on three activities, the first named by the two
\* others, whose late_start differ; the second of them names it second
C22_Witness ==
    /\ AfterCpm
    /\ Len(activities) = 3
    /\ DependencyOrder(activities)
    /\ NamedBy(activities, 1) = {2, 3}
    /\ activities[3].predecessors = <<1, 2>>
    /\ activities[2].late_start < activities[3].late_start
    /\ activities[1].late_finish = activities[2].late_start
    /\ activities[3].late_finish = ret.project_duration

(***************************************************************************)
(* C23: generate_gantt_data called after add_activity calls and before any *)
(* calculate_cpm returns records with start_date = end_date = the anchor   *)
(* date, slack 0 and is_critical false, whatever the durations and         *)
(* predecessors; in every case the record of an activity has start_date =  *)
(* anchor + early_start days and end_date = anchor + early_finish days.    *)
(***************************************************************************)
C23_GanttBeforeCpm ==
    AfterGantt =>
        /\ ret.kind = "list"
        /\ Len(ret.gantt) = Len(activities)
        /\ \A k \in 1..Len(activities) :
            /\ DateOrdinal(ret.gantt[k].start_date)
                  = call.start_date + activities[k].early_start
            /\ DateOrdinal(ret.gantt[k].end_date)
                  = call.start_date + activities[k].early_finish
        /\ (\A k \in 1..Len(activities) : IsFresh(activities[k]))
              => \A k \in 1..Len(activities) :
                    /\ ret.gantt[k].start_date = ret.gantt[k].end_date
                    /\ DateOrdinal(ret.gantt[k].start_date) = call.start_date
                    /\ ret.gantt[k].slack = 0
                    /\ ret.gantt[k].is_critical = FALSE

\* generate_gantt_data has run on two activities of 2 days and 1 day, the
\* second depending on the first, that calculate_cpm has not yet seen
C23_Witness ==
    /\ AfterGantt
    /\ Len(activities) = 2
    /\ activities[1].duration = 2
    /\ activities[2].predecessors = <<1>>
    /\ IsFresh(activities[1])
    /\ IsFresh(activities[2])
    /\ ret.gantt[1].end_date = <<2024, 2, 27>>
    /\ ret.gantt[2].start_date = <<2024, 2, 27>>

\* the lists of integers typed in the texts of the model that hold nothing
\* but integers between the commas, and their JSON texts
TypedLists ==
    {<< <<"1">>, <<1>>, <<"[", "1", "]">> >>,
     << <<"1", ",", "2">>, <<1, 2>>, <<"[", "1", ",", " ", "2", "]">> >>,
     << <<"2", ",", " ", "1">>, <<2, 1>>,
        <<"[", "2", ",", " ", "1", "]">> >>,
     << <<" ", "1", "2", " ">>, <<12>>, <<"[", "1", "2", "]">> >>,
     << <<"-", "1">>, <<0 - 1>>, <<"[", "-", "1", "]">> >>}

\* the texts of the model with a token that is not an integer
MalformedTexts ==
    {<<"1", ",", ",", "2">>, <<"1", ",">>, <<"x">>, <<" ">>,
     <<"1", " ", "2">>, <<"1", ",", "x">>}

(***************************************************************************)
(* C24: in new_activity, when the submitted predecessors string is         *)
(* non-empty and some comma-separated token is not an integer (an empty    *)
(* token included), no ScheduleActivity is persisted and the form is       *)
(* rendered again with an error; when every token is an integer, exactly   *)
(* one ScheduleActivity is persisted whose predecessors column is the JSON *)
(* list of those integers in the order typed.  So every row that           *)
(* schedule_detail reads gives add_activity a list of integers.            *)
(***************************************************************************)
C24_PredecessorsParsed ==
    /\ [](\A k \in 1..Len(table) :
            \A n \in 1..Len(JsonLoads(table[k].predecessors)) :
                JsonLoads(table[k].predecessors)[n] \in Int)
    /\ [][\A form \in Forms :
            (NewActivityRequest(form) /\ ValidateOnSubmit(form))
              => /\ form.predecessors \in MalformedTexts
                    => /\ table' = table
                       /\ response' = [kind |-> "form", flash |-> "danger"]
                 /\ \A typed \in TypedLists :
                      form.predecessors = typed[1]
                        => /\ Len(table') = Len(table) + 1
                           /\ SubSeq(table', 1, Len(table)) = table
                           /\ table'[Len(table')].predecessors = typed[3]
                           /\ JsonLoads(table'[Len(table')].predecessors)
                                 = typed[2]
                           /\ response'.kind = "redirect"]_vars

\* '2, 1' was accepted: the table holds one row, whose column reads
\* '[2, 1]' and gives add_activity the list [2, 1]
C24_Witness ==
    /\ Len(table) = 1
    /\ response.kind = "redirect"
    /\ table[1].predecessors = <<"[", "2", ",", " ", "1", "]">>
    /\ EngineOfRows(table)[1].predecessors = <<2, 1>>

(***************************************************************************)
(* C25: calculate_cpm terminates and returns a result for every finite     *)
(* non-empty activity list, including lists whose predecessor relation is  *)
(* cyclic, self-referencing, out of insertion order or has duplicate ids:  *)
(* each of the two passes visits each activity exactly once.               *)
(***************************************************************************)
C25_Terminates ==
    (frame.pc = "forward" /\ activities # << >>)
        ~> (/\ frame.pc = "returned"
            /\ ret.kind = "dict"
            /\ \A k \in 1..Len(activities) :
                  frame.forward[k] = 1 /\ frame.backward[k] = 1)

\* calculate_cpm has returned from a list of two activities with the same
\* id, both naming that id as predecessor, with one visit each per pass
C25_Witness ==
    /\ frame.pc = "returned"
    /\ Len(activities) = 2
    /\ activities[1].id = activities[2].id
    /\ activities[1].id \in Range(activities[1].predecessors)
    /\ activities[2].predecessors = activities[1].predecessors
    /\ frame.forward = <<1, 1>>
    /\ frame.backward = <<1, 1>>
    /\ ret.kind = "dict"

\* the records whose early_finish the forward pass reads for activity i: the
\* first record carrying each predecessor id
ReadsFrom(acts, i) ==
    {FindPred(acts, acts[i].predecessors[k]) :
        k \in 1..Len(acts[i].predecessors)} \ {0}

\* positions reachable from S along ReadsFrom in at most n steps
RECURSIVE ReadClosure(_, _, _)
ReadClosure(acts, S, n) ==
    IF n = 0 THEN S
    ELSE ReadClosure(acts,
             S \cup UNION {ReadsFrom(acts, i) : i \in S}, n - 1)

\* the activities that lie on a cycle of the predecessor relation
OnCycle(acts) ==
    {i \in 1..Len(acts) :
        i \in ReadClosure(acts, ReadsFrom(acts, i), Len(acts))}

(***************************************************************************)
(* C26: for an activity set whose predecessor relation has a cycle and     *)
(* whose durations are all >= 1, repeated calculate_cpm calls never reach a *)
(* fixed point: with each further call the maximum early_finish among the  *)
(* activities on the cycle is strictly greater than after the previous     *)
(* call.                                                                   *)
(***************************************************************************)
C26_CycleGrows ==
    [][(/\ call.op = "calculate_cpm"
        /\ call'.op = "calculate_cpm"
        /\ DurationsAtLeastOne(activities)
        /\ OnCycle(activities) # {})
          => MaxOf({activities'[i].early_finish : i \in OnCycle(activities)})
               > MaxOf({activities[i].early_finish :
                           i \in OnCycle(activities)})]_vars

C26_Witness ==
    /\ AfterCpm
    /\ Len(activities) = 2
    /\ UniqueIds(activities)
    /\ OnCycle(activities) = {1, 2}
    /\ activities[1].duration = 1
    /\ activities[2].duration = 1
    /\ activities[1].early_finish = 3
    /\ activities[2].early_finish = 4

(***************************************************************************)
(* C27: after calculate_cpm on an acyclic activity set with unique ids,    *)
(* durations >= 1 and every activity added after all of its predecessors,  *)
(* every activity has slack >= 0, early_start >= 0, late_start >=          *)
(* early_start and late_finish <= project_duration.                        *)
(***************************************************************************)
C27_Bounds ==
    (/\ AfterCpm
     /\ UniqueIds(activities)
     /\ DependencyOrder(activities)
     /\ DurationsAtLeastOne(activities))
        => \A i \in 1..Len(activities) :
             /\ activities[i].slack >= 0
             /\ activities[i].early_start >= 0
             /\ activities[i].late_start >= activities[i].early_start
             /\ activities[i].late_finish <= ret.project_duration

\* calculate_cpm has run on three activities of at least one day, the second
\* and third both after the first; the second has float, the others none
C27_Witness ==
    /\ AfterCpm
    /\ Len(activities) = 3
    /\ UniqueIds(activities)
    /\ DependencyOrder(activities)
    /\ DurationsAtLeastOne(activities)
    /\ activities[2].predecessors = <<1>>
    /\ activities[3].predecessors = <<1>>
    /\ activities[2].slack > 0
    /\ activities[2].late_start > activities[2].early_start
    /\ activities[1].slack = 0
    /\ activities[3].late_finish = ret.project_duration

\* the positions whose ids are in a returned critical_path
OnPath(acts, critical_path) ==
    {i \in 1..Len(acts) : acts[i].id \in Range(critical_path)}

\* the pairs <<i, total>> such that a dependency chain of activities on the
\* path, each a predecessor of the next, starts at an activity with
\* early_start 0, ends at position i and has durations summing to total:
\* the chains in C extended by at most n members
RECURSIVE PathChains(_, _, _, _)
PathChains(acts, path, C, n) ==
    IF n = 0 THEN C
    ELSE PathChains(acts, path,
             C \cup UNION {{<<j, c[2] + acts[j].duration>> :
                               j \in {k \in path :
                                         acts[c[1]].id
                                            \in Range(acts[k].predecessors)}} :
                           c \in C},
             n - 1)

CriticalChains(acts, critical_path) ==
    LET path == OnPath(acts, critical_path)
    IN  PathChains(acts, path,
                   {<<i, acts[i].duration>> :
                       i \in {k \in path : acts[k].early_start = 0}},
                   Len(acts))

(***************************************************************************)
(* C28: after calculate_cpm on a non-empty acyclic activity set with       *)
(* unique ids, durations >= 1 and every activity added after all of its    *)
(* predecessors, the critical_path is non-empty and contains a dependency  *)
(* chain (each member a predecessor of the next) that starts at an         *)
(* activity with early_start 0, ends at an activity with early_finish =    *)
(* project_duration, and whose durations sum to project_duration.          *)
(***************************************************************************)
C28_CriticalChain ==
    (/\ AfterCpm
     /\ activities # << >>
     /\ UniqueIds(activities)
     /\ DependencyOrder(activities)
     /\ DurationsAtLeastOne(activities))
        => /\ ret.critical_path # << >>
           /\ \E c \in CriticalChains(activities, ret.critical_path) :
                 /\ activities[c[1]].early_finish = ret.project_duration
                 /\ c[2] = ret.project_duration

\* calculate_cpm has run on three activities: the first of two days, then a
\* one-day and a two-day activity both after it; the critical path is the
\* first and the third, four days, and the second is not on it
C28_Witness ==
    /\ AfterCpm
    /\ Len(activities) = 3
    /\ UniqueIds(activities)
    /\ DependencyOrder(activities)
    /\ activities[1].duration = 2
    /\ activities[2].duration = 1
    /\ activities[3].duration = 2
    /\ activities[2].predecessors = <<1>>
    /\ activities[3].predecessors = <<1>>
    /\ ret.critical_path = <<activities[1].id, activities[3].id>>
    /\ ret.project_duration = 4
    /\ <<3, 4>> \in CriticalChains(activities, ret.critical_path)

\* activity i has no predecessors and no other activity names its id
Isolated(acts, i) ==
    /\ acts[i].predecessors = << >>
    /\ NamedBy(acts, i) = {}

(***************************************************************************)
(* C29: in a schedule with more than one activity, an activity that has no *)
(* predecessors and that no other activity names as predecessor gets       *)
(* early_start 0, late_finish = project_duration and slack =               *)
(* project_duration - duration after calculate_cpm; it is therefore        *)
(* critical only when its own duration equals project_duration.            *)
(***************************************************************************)
C29_Isolated ==
    (AfterCpm /\ Len(activities) > 1)
        => \A i \in 1..Len(activities) :
             Isolated(activities, i)
                => /\ activities[i].early_start = 0
                   /\ activities[i].late_finish = ret.project_duration
                   /\ activities[i].slack =
                          ret.project_duration - activities[i].duration
                   /\ activities[i].is_critical
                          => activities[i].duration = ret.project_duration

\* calculate_cpm has run on two activities that do not depend on each
\* other, of one and two days: the first has one day of float, the second
\* is critical
C29_Witness ==
    /\ AfterCpm
    /\ Len(activities) = 2
    /\ Isolated(activities, 1)
    /\ Isolated(activities, 2)
    /\ activities[1].duration = 1
    /\ activities[2].duration = 2
    /\ ret.project_duration = 2
    /\ activities[1].slack = 1
    /\ ~activities[1].is_critical
    /\ activities[2].is_critical

(***************************************************************************)
(* A caller that keeps the dict returned by calculate_cpm and goes on      *)
(* using the same engine.                                                  *)
(***************************************************************************)
\* a result whose 'activities' is a copy of the list made at the return
ReturnedActivitiesCopy(acts) == [own |-> FALSE, items |-> acts]

\* 'activities': self.activities, the list object of the engine itself
ReturnedActivities(acts) == [own |-> TRUE, items |-> << >>]

\* the list a reader of a returned 'activities' value finds when the engine
\* holds the list acts
ReadActivities(value, acts) == IF value.own THEN acts ELSE value.items

\* cpm_data = calculator.calculate_cpm(): the caller keeps the dict; seen is
\* len(cpm_data['activities']) at that moment
Keep ==
    /\ call.op = "calculate_cpm"
    /\ ret.kind = "dict"
    /\ held' = [kind |-> "dict",
                project_duration |-> ret.project_duration,
                critical_path |-> ret.critical_path,
                critical_activities |-> ret.critical_activities,
                activities |-> ReturnedActivities(activities),
                seen |-> Len(activities)]
    /\ UNCHANGED <<engine, requests, calculators, calc, table, response,
                   frame>>

\* a caller that adds activities of one or two days in dependency order
AddLater ==
    /\ Len(activities) < MaxOrdered
    /\ \E name \in NameSet, duration \in StepDurSet,
          predecessors \in SortedLists(1..Len(activities)) :
           AddActivity(Len(activities) + 1, name, duration, predecessors)

NextKeep == AddLater \/ CalculateCpm \/ Keep

SpecKeep == Init /\ [][NextKeep]_vars

\* the activities a kept result had when it was returned, as a fresh engine
\* holds them
SeenInputs(acts, value) == BaseInputs(SubSeq(acts, 1, value.seen))

(***************************************************************************)
(* C30: the 'activities' list and the records in 'critical_activities'     *)
(* returned by calculate_cpm are the engine's own list and records, not    *)
(* copies: after a later add_activity followed by calculate_cpm on the same *)
(* engine, the 'activities' value of the earlier result contains the new   *)
(* activity and shows the recomputed fields, while the earlier result's    *)
(* project_duration and critical_path keep their old values.               *)
(***************************************************************************)
C30_ReturnedByReference ==
    (/\ AfterCpm
     /\ held.kind = "dict"
     /\ Len(activities) > held.seen)
        => LET earlier == ReadActivities(held.activities, activities)
               old == CpmReturn(SeenInputs(activities, held))
           IN  /\ Len(earlier) = Len(activities)
               /\ earlier = CpmActivities(BaseInputs(activities))
               /\ \A k \in Range(held.critical_activities) :
                     earlier[k].is_critical
                        = (k \in Range(ret.critical_activities))
               /\ held.critical_activities = old.critical_activities
               /\ held.project_duration = old.project_duration
               /\ held.critical_path = old.critical_path

\* the caller kept the result for two independent two-day activities, both
\* critical, then added a one-day activity after the second and called
\* calculate_cpm again: the kept result still says 2 days and path 1, 2,
\* while its first record now shows one day of float
C30_Witness ==
    /\ AfterCpm
    /\ held.kind = "dict"
    /\ held.seen = 2
    /\ Len(activities) = 3
    /\ held.project_duration = 2
    /\ held.critical_path = <<1, 2>>
    /\ held.critical_activities = <<1, 2>>
    /\ ret.project_duration = 3
    /\ ret.critical_path = <<2, 3>>
    /\ ReadActivities(held.activities, activities)[3].id = 3
    /\ ReadActivities(held.activities, activities)[1].slack = 1
    /\ ~ReadActivities(held.activities, activities)[1].is_critical

====
